---- MODULE Spec2Model ----
(***************************************************************************)
(* Lifecycle manager of the embedded SOCKS5 front-end                       *)
(* (tools/arti-build/src/lib.rs): the process-wide singletons               *)
(* TOKIO_RUNTIME, ARTI_CLIENT, SOCKS_TASK and INIT_ONCE, the three JNI      *)
(* lifecycle calls initialize / startSocksProxy / stop issued by caller     *)
(* threads, and the engine's handling of the listener tasks they spawn.     *)
(*                                                                         *)
(* A Rust Option<T> is a sequence of length at most one: None is << >> and  *)
(* Some(x) is <<x>>.  A Mutex is the Option of the thread that owns it.     *)
(***************************************************************************)
EXTENDS Integers, FiniteSets, Sequences, TLC

\* ---------------------------------------------------------------- bounds
\* Caller threads that may issue lifecycle calls.
NumThreads == 2
\* Listener tasks spawned over one run.
MaxTasks == 2
\* Client handles created by successful bootstraps over one run.
MaxClients == 2
\* Local TCP ports a caller may pass to startSocksProxy.
NumPorts == 2
\* Connections accepted, over all listener tasks, in one run.
MaxHandlers == 2

Threads == 1..NumThreads
Ports == 1..NumPorts

\* Longest domain name tried byte by byte (longer ones are tried as one
\* repeated byte, up to the 255 a length byte can say).
MaxDomainLen == 3
\* Longest greeting read tried.
MaxGreeting == 3
\* Chunks copied per direction in the relay phase of one connection.
MaxRelay == 2

\* ------------------------------------------------------------ result codes
INIT_OK == 0
INIT_ERR_DATA_DIR == -1
INIT_ERR_RUNTIME == -2
INIT_ERR_ARTI == -3
START_OK == 0
START_ERR_CLIENT == -1
START_ERR_RUNTIME == -2
START_ERR_BIND == -3
STOP_OK == 0

\* ------------------------------------------------------- SOCKS5 literals
SOCKS_VERSION == 5
CMD_CONNECT == 1
ATYP_IPV4 == 1
ATYP_DOMAIN == 3
ATYP_IPV6 == 4
MIN_GREETING == 2
MIN_REQUEST == 10
MIN_IPV6_REQUEST == 22
REP_SUCCEEDED == 0
REP_GENERAL_FAILURE == 1
REP_CONNECTION_REFUSED == 5
REP_COMMAND_NOT_SUPPORTED == 7
REP_ATYP_NOT_SUPPORTED == 8

\* ------------------------------------------------------------------ Option
None == << >>
Some(x) == <<x>>
Unwrap(o) == o[1]

\* The three mutexes around the lifecycle singletons.
Locks == {"SOCKS_TASK", "ARTI_CLIENT", "TOKIO_RUNTIME"}

VARIABLES
    TOKIO_RUNTIME,  \* Option of the engine (identified by its creation number)
    ARTI_CLIENT,    \* Option of the client handle (identified by its creation number)
    SOCKS_TASK,     \* Option of the JoinHandle (a task index) of the listener task
    INIT_ONCE,      \* "new" until call_once has run its closure, then "done"
    lock,           \* lock[l]: Option of the thread holding mutex l
    tasks,          \* listener tasks ever spawned on the engine, by index
    pc,             \* pc[t]: where caller thread t stands in its call
    frame,          \* frame[t]: the call's arguments, locals and result
    engineBuilds,   \* engines built so far (history)
    nClients,       \* client handles created so far (history)
    lastReturned,   \* the operation that returned most recently (history)
    handlers,       \* per listener task, the client of each running handler
    conn,           \* one connection inside handle_socks_connection
    held,           \* held[l]: the thread holding mutex l, at the grain of
                    \* single lock operations
    globals,        \* globals[l]: whether the Option under mutex l is Some
    once,           \* INIT_ONCE at that grain: its state and who runs it
    spawned,        \* whether a listener task was ever spawned
    at              \* at[t]: the call thread t is in and its next instruction

\* The state beyond the lifecycle singletons and the callers' frames.
\* The lock-level view of the calls.
lockVars == <<held, globals, once, spawned, at>>

extVars == <<handlers, conn, lockVars>>

\* The lifecycle singletons, the listener tasks and the callers' frames.
lifeVars == <<TOKIO_RUNTIME, ARTI_CLIENT, SOCKS_TASK, INIT_ONCE, lock, tasks,
              pc, frame, engineBuilds, nClients, lastReturned>>

vars == <<TOKIO_RUNTIME, ARTI_CLIENT, SOCKS_TASK, INIT_ONCE, lock, tasks, pc,
          frame, engineBuilds, nClients, lastReturned, extVars>>

\* Positions inside each call.
InitPcs == {"init_once", "init_rt", "init_config", "init_bootstrap"}
StartPcs == {"sp_take", "sp_client", "sp_rt", "sp_bind", "sp_spawn", "sp_store"}
StopPcs == {"st_take", "st_rt", "st_sleep"}

\* The positions at which the calling thread sits in runtime.block_on(...).
AwaitPcs == {"init_bootstrap", "sp_bind", "st_sleep"}

\* A fresh call frame: nothing taken, cloned, bound or spawned, no result yet.
NewFrame(o, a) ==
    [op |-> o, arg |-> a, taken |-> None, client |-> None, listener |-> None,
     bind_result |-> "none", handle |-> None, cause |-> "none", ret |-> None]

\* A task still owns its bound socket until the engine drops its future.
Live(i) == tasks[i].st \in {"running", "aborting"}

\* The OS refuses a bind to a port some socket of this process listens on.
PortInUse(p) ==
    \/ \E i \in 1..Len(tasks) : Live(i) /\ tasks[i].port = p
    \/ \E t \in Threads : frame[t].listener = Some(p)

\* Abort with the request left out: the JoinHandle is merely dropped, which
\* detaches the task.
AbortForgotten(ts, h) == ts

\* JoinHandle::abort: a request; the engine cancels the task later.  No effect
\* on a task that has already finished.
Abort(ts, h) ==
    IF h = None THEN ts
    ELSE [ts EXCEPT ![Unwrap(h)].st =
             IF @ = "running" THEN "aborting" ELSE @]

Free(l) == lock[l] = None
Acquire(t, l) == [lock EXCEPT ![l] = Some(t)]
Release(t, l) == [lock EXCEPT ![l] = IF @ = Some(t) THEN None ELSE @]

\* The five global mutexes (lines 19-31).
Mutexes ==
    {"TOKIO_RUNTIME", "SOCKS_TASK", "ARTI_CLIENT", "JAVA_VM", "LOG_CALLBACK"}

\* The threads of the lock-level view: the callers, and thread 0, a worker
\* of the engine that runs the listener and handler tasks.
LockThreads == 0..NumThreads

\* The two copy futures of the relay (lines 405-411).
Directions == {"client_to_tor", "tor_to_client"}

\* A connection as handle_socks_connection receives it.
NewConn ==
    [pc |-> "read_greeting", n |-> 0, buf |-> << >>, read |-> FALSE,
     written |-> << >>, cause |-> "none", code |-> None,
     target_host |-> << >>, target_port |-> 0, connects |-> 0,
     connected |-> FALSE,
     copied |-> [d \in Directions |-> 0], ready |-> {}]

Init ==
    /\ TOKIO_RUNTIME = None
    /\ ARTI_CLIENT = None
    /\ SOCKS_TASK = None
    /\ INIT_ONCE = "new"
    /\ lock = [l \in Locks |-> None]
    /\ tasks = << >>
    /\ pc = [t \in Threads |-> "idle"]
    /\ frame = [t \in Threads |-> NewFrame("none", 0)]
    /\ engineBuilds = 0
    /\ nClients = 0
    /\ lastReturned = "none"
    /\ handlers = [i \in 1..MaxTasks |-> << >>]
    /\ conn = NewConn
    /\ held = [l \in Mutexes |-> None]
    /\ globals = [l \in Mutexes |-> "none"]
    /\ once = [st |-> "new", by |-> None]
    /\ spawned = FALSE
    /\ at = [t \in LockThreads |-> [op |-> "idle", pos |-> 0]]

\* ------------------------------------------------------------- initialize
\* InitializeCode with the engine failure folded into the general Err arm.
InitializeCodeFolded(cause) ==
    CASE cause = "none" -> INIT_OK
      [] cause = "data_dir" -> INIT_ERR_DATA_DIR
      [] cause = "engine" -> INIT_ERR_ARTI
      [] cause = "config" -> INIT_ERR_ARTI
      [] cause = "bootstrap" -> INIT_ERR_ARTI

\* The code initialize returns for each way it can end (lines 137, 166, 199-208:
\* every Err of the block_on body, from config build or from bootstrap, takes
\* the one Err arm).
InitializeCode(cause) ==
    CASE cause = "none" -> INIT_OK
      [] cause = "data_dir" -> INIT_ERR_DATA_DIR
      [] cause = "engine" -> INIT_ERR_RUNTIME
      [] cause = "config" -> INIT_ERR_ARTI
      [] cause = "bootstrap" -> INIT_ERR_ARTI

\* A call returns: its result and cause are kept in the frame until the
\* thread's next call.
Returned(f, cause, code) == [f EXCEPT !.cause = cause, !.ret = Some(code)]

\* Calls that can still create a client handle or a listener task.
InFlight(pcs) == Cardinality({u \in Threads : pc[u] \in pcs})

\* Entry of initialize up to the data_dir conversion (lines 126-142).
CallInitialize(t) ==
    /\ pc[t] = "idle"
    /\ nClients + InFlight(InitPcs) < MaxClients
    /\ \E dirOk \in BOOLEAN :
         IF dirOk
         THEN /\ pc' = [pc EXCEPT ![t] = "init_once"]
              /\ frame' = [frame EXCEPT ![t] = NewFrame("initialize", 0)]
              /\ UNCHANGED lastReturned
         ELSE /\ pc' = pc
              /\ frame' = [frame EXCEPT ![t] =
                     Returned(NewFrame("initialize", 0), "data_dir",
                              InitializeCode("data_dir"))]
              /\ lastReturned' = "initialize"
    /\ UNCHANGED extVars
    /\ UNCHANGED <<TOKIO_RUNTIME, ARTI_CLIENT, SOCKS_TASK, INIT_ONCE, lock,
                   tasks, engineBuilds, nClients>>

\* InitOnce without the run-once guard: every call builds an engine and
\* overwrites the stored one.
InitOnceUnguarded(t) ==
    /\ pc[t] = "init_once"
    /\ Free("TOKIO_RUNTIME")
    /\ INIT_ONCE' = "done"
    /\ \E built \in BOOLEAN :
         IF built
         THEN /\ engineBuilds' = engineBuilds + 1
              /\ TOKIO_RUNTIME' = Some(engineBuilds + 1)
         ELSE UNCHANGED <<engineBuilds, TOKIO_RUNTIME>>
    /\ pc' = [pc EXCEPT ![t] = "init_rt"]
    /\ UNCHANGED extVars
    /\ UNCHANGED <<ARTI_CLIENT, SOCKS_TASK, lock, tasks, frame, nClients,
                   lastReturned>>

\* INIT_ONCE.call_once (lines 145-158): the closure runs in the first call
\* only; it builds the engine and stores it, or logs the failure.
InitOnce(t) ==
    /\ pc[t] = "init_once"
    /\ IF INIT_ONCE = "new"
       THEN /\ Free("TOKIO_RUNTIME")
            /\ INIT_ONCE' = "done"
            /\ \E built \in BOOLEAN :
                 IF built
                 THEN /\ engineBuilds' = engineBuilds + 1
                      /\ TOKIO_RUNTIME' = Some(engineBuilds + 1)
                 ELSE UNCHANGED <<engineBuilds, TOKIO_RUNTIME>>
       ELSE UNCHANGED <<INIT_ONCE, engineBuilds, TOKIO_RUNTIME>>
    /\ pc' = [pc EXCEPT ![t] = "init_rt"]
    /\ UNCHANGED extVars
    /\ UNCHANGED <<ARTI_CLIENT, SOCKS_TASK, lock, tasks, frame, nClients,
                   lastReturned>>

\* runtime_guard = TOKIO_RUNTIME.lock() (lines 161-168): the guard is a named
\* binding, so the mutex stays locked until the function returns.
InitRuntime(t) ==
    /\ pc[t] = "init_rt"
    /\ Free("TOKIO_RUNTIME")
    /\ IF TOKIO_RUNTIME = None
       THEN /\ pc' = [pc EXCEPT ![t] = "idle"]
            /\ frame' = [frame EXCEPT ![t] =
                   Returned(@, "engine", InitializeCode("engine"))]
            /\ lastReturned' = "initialize"
            /\ UNCHANGED lock
       ELSE /\ pc' = [pc EXCEPT ![t] = "init_config"]
            /\ lock' = Acquire(t, "TOKIO_RUNTIME")
            /\ UNCHANGED <<frame, lastReturned>>
    /\ UNCHANGED extVars
    /\ UNCHANGED <<TOKIO_RUNTIME, ARTI_CLIENT, SOCKS_TASK, INIT_ONCE, tasks,
                   engineBuilds, nClients>>

\* Start of the block_on body (lines 179-186): the config is built, or the
\* body ends with its error.
InitConfig(t) ==
    /\ pc[t] = "init_config"
    /\ \E built \in BOOLEAN :
         IF built
         THEN /\ pc' = [pc EXCEPT ![t] = "init_bootstrap"]
              /\ UNCHANGED <<frame, lock, lastReturned>>
         ELSE /\ pc' = [pc EXCEPT ![t] = "idle"]
              /\ frame' = [frame EXCEPT ![t] =
                     Returned(@, "config", InitializeCode("config"))]
              /\ lock' = Release(t, "TOKIO_RUNTIME")
              /\ lastReturned' = "initialize"
    /\ UNCHANGED extVars
    /\ UNCHANGED <<TOKIO_RUNTIME, ARTI_CLIENT, SOCKS_TASK, INIT_ONCE, tasks,
                   engineBuilds, nClients>>

\* InitBootstrap that drops the old handle when the bootstrap fails.
InitBootstrapResetsClient(t) ==
    /\ pc[t] = "init_bootstrap"
    /\ Free("ARTI_CLIENT")
    /\ \E booted \in BOOLEAN :
         IF booted
         THEN /\ nClients' = nClients + 1
              /\ ARTI_CLIENT' = Some(nClients + 1)
              /\ frame' = [frame EXCEPT ![t] =
                     Returned(@, "none", InitializeCode("none"))]
         ELSE /\ UNCHANGED nClients
              /\ ARTI_CLIENT' = None
              /\ frame' = [frame EXCEPT ![t] =
                     Returned(@, "bootstrap",
                              InitializeCode("bootstrap"))]
    /\ pc' = [pc EXCEPT ![t] = "idle"]
    /\ lock' = Release(t, "TOKIO_RUNTIME")
    /\ lastReturned' = "initialize"
    /\ UNCHANGED extVars
    /\ UNCHANGED <<TOKIO_RUNTIME, SOCKS_TASK, INIT_ONCE, tasks, engineBuilds>>

\* create_bootstrapped(config).await completes (lines 188-208): on success the
\* new client replaces whatever ARTI_CLIENT held; the function then returns.
InitBootstrap(t) ==
    /\ pc[t] = "init_bootstrap"
    /\ \E booted \in BOOLEAN :
         IF booted
         THEN /\ Free("ARTI_CLIENT")
              /\ nClients' = nClients + 1
              /\ ARTI_CLIENT' = Some(nClients + 1)
              /\ frame' = [frame EXCEPT ![t] =
                     Returned(@, "none", InitializeCode("none"))]
         ELSE /\ UNCHANGED <<nClients, ARTI_CLIENT>>
              /\ frame' = [frame EXCEPT ![t] =
                     Returned(@, "bootstrap",
                              InitializeCode("bootstrap"))]
    /\ pc' = [pc EXCEPT ![t] = "idle"]
    /\ lock' = Release(t, "TOKIO_RUNTIME")
    /\ lastReturned' = "initialize"
    /\ UNCHANGED extVars
    /\ UNCHANGED <<TOKIO_RUNTIME, SOCKS_TASK, INIT_ONCE, tasks, engineBuilds>>

\* -------------------------------------------------------- startSocksProxy
\* Entry of startSocksProxy (lines 213-219).
CallStartProxy(t) ==
    /\ pc[t] = "idle"
    /\ Len(tasks) + InFlight(StartPcs) < MaxTasks
    /\ \E port \in Ports :
         frame' = [frame EXCEPT ![t] = NewFrame("startProxy", port)]
    /\ pc' = [pc EXCEPT ![t] = "sp_take"]
    /\ UNCHANGED extVars
    /\ UNCHANGED <<TOKIO_RUNTIME, ARTI_CLIENT, SOCKS_TASK, INIT_ONCE, lock,
                   tasks, engineBuilds, nClients, lastReturned>>

\* "Stop any existing SOCKS server first" (lines 221-225): the slot is emptied
\* and the abort of the task it held is requested, not awaited.
StartTake(t) ==
    /\ pc[t] = "sp_take"
    /\ Free("SOCKS_TASK")
    /\ frame' = [frame EXCEPT ![t].taken = SOCKS_TASK]
    /\ SOCKS_TASK' = None
    /\ tasks' = Abort(tasks, SOCKS_TASK)
    /\ pc' = [pc EXCEPT ![t] = "sp_client"]
    /\ UNCHANGED extVars
    /\ UNCHANGED <<TOKIO_RUNTIME, ARTI_CLIENT, INIT_ONCE, lock, engineBuilds,
                   nClients, lastReturned>>

\* The client-handle check (lines 227-235): the handle is cloned and the
\* guard dropped, or the call returns "not initialized".
StartClient(t) ==
    /\ pc[t] = "sp_client"
    /\ Free("ARTI_CLIENT")
    /\ IF ARTI_CLIENT = None
       THEN /\ pc' = [pc EXCEPT ![t] = "idle"]
            /\ frame' = [frame EXCEPT ![t] =
                   Returned(@, "no_client", START_ERR_CLIENT)]
            /\ lastReturned' = "startProxy"
       ELSE /\ pc' = [pc EXCEPT ![t] = "sp_rt"]
            /\ frame' = [frame EXCEPT ![t].client = ARTI_CLIENT]
            /\ UNCHANGED lastReturned
    /\ UNCHANGED extVars
    /\ UNCHANGED <<TOKIO_RUNTIME, ARTI_CLIENT, SOCKS_TASK, INIT_ONCE, lock,
                   tasks, engineBuilds, nClients>>

\* runtime_guard = TOKIO_RUNTIME.lock() (lines 237-244), held to the return.
StartRuntime(t) ==
    /\ pc[t] = "sp_rt"
    /\ Free("TOKIO_RUNTIME")
    /\ IF TOKIO_RUNTIME = None
       THEN /\ pc' = [pc EXCEPT ![t] = "idle"]
            /\ frame' = [frame EXCEPT ![t] =
                   Returned(@, "engine", START_ERR_RUNTIME)]
            /\ lastReturned' = "startProxy"
            /\ UNCHANGED lock
       ELSE /\ pc' = [pc EXCEPT ![t] = "sp_bind"]
            /\ lock' = Acquire(t, "TOKIO_RUNTIME")
            /\ UNCHANGED <<frame, lastReturned>>
    /\ UNCHANGED extVars
    /\ UNCHANGED <<TOKIO_RUNTIME, ARTI_CLIENT, SOCKS_TASK, INIT_ONCE, tasks,
                   engineBuilds, nClients>>

\* What TcpListener::bind answers for port p: the port is taken by a socket of
\* this process, or the OS refuses for a reason of its own, or the socket is
\* bound.
BindResult(p, osOk) ==
    IF PortInUse(p) THEN "in_use" ELSE IF osOk THEN "ok" ELSE "os_error"

\* StartBind with the bind result left unchecked: the call goes on to spawn
\* the task whatever the bind answered.
StartBindUnchecked(t) ==
    /\ pc[t] = "sp_bind"
    /\ \E osOk \in BOOLEAN :
         frame' = [frame EXCEPT
                     ![t].bind_result = BindResult(frame[t].arg, osOk),
                     ![t].listener = Some(frame[t].arg)]
    /\ pc' = [pc EXCEPT ![t] = "sp_spawn"]
    /\ UNCHANGED extVars
    /\ UNCHANGED <<TOKIO_RUNTIME, ARTI_CLIENT, SOCKS_TASK, INIT_ONCE, lock,
                   tasks, engineBuilds, nClients, lastReturned>>

\* block_on(TcpListener::bind) completes (lines 246-263).
StartBind(t) ==
    /\ pc[t] = "sp_bind"
    /\ \E osOk \in BOOLEAN :
         LET res == BindResult(frame[t].arg, osOk) IN
         IF res = "ok"
         THEN /\ pc' = [pc EXCEPT ![t] = "sp_spawn"]
              /\ frame' = [frame EXCEPT ![t].bind_result = res,
                                        ![t].listener = Some(frame[t].arg)]
              /\ UNCHANGED <<lock, lastReturned>>
         ELSE /\ pc' = [pc EXCEPT ![t] = "idle"]
              /\ frame' = [frame EXCEPT ![t] =
                     Returned([@ EXCEPT !.bind_result = res], "bind",
                              START_ERR_BIND)]
              /\ lock' = Release(t, "TOKIO_RUNTIME")
              /\ lastReturned' = "startProxy"
    /\ UNCHANGED extVars
    /\ UNCHANGED <<TOKIO_RUNTIME, ARTI_CLIENT, SOCKS_TASK, INIT_ONCE, tasks,
                   engineBuilds, nClients>>

\* runtime.spawn (lines 265-296): the bound listener and the cloned client
\* move into the new task.  frame.handle keeps the JoinHandle.
StartSpawn(t) ==
    /\ pc[t] = "sp_spawn"
    /\ tasks' = Append(tasks, [st |-> "running",
                               port |-> Unwrap(frame[t].listener),
                               client |-> Unwrap(frame[t].client)])
    /\ frame' = [frame EXCEPT ![t].handle = Some(Len(tasks) + 1),
                              ![t].listener = None]
    /\ pc' = [pc EXCEPT ![t] = "sp_store"]
    /\ UNCHANGED extVars
    /\ UNCHANGED <<TOKIO_RUNTIME, ARTI_CLIENT, SOCKS_TASK, INIT_ONCE, lock,
                   engineBuilds, nClients, lastReturned>>

\* *SOCKS_TASK.lock() = Some(handle) and the return (lines 298-303).  A
\* JoinHandle the slot held is dropped, which detaches its task and does not
\* abort it.  frame.handle is kept to tell which task the call spawned.
StartStore(t) ==
    /\ pc[t] = "sp_store"
    /\ Free("SOCKS_TASK")
    /\ SOCKS_TASK' = frame[t].handle
    /\ frame' = [frame EXCEPT ![t] = Returned(@, "none", START_OK)]
    /\ lock' = Release(t, "TOKIO_RUNTIME")
    /\ pc' = [pc EXCEPT ![t] = "idle"]
    /\ lastReturned' = "startProxy"
    /\ UNCHANGED extVars
    /\ UNCHANGED <<TOKIO_RUNTIME, ARTI_CLIENT, INIT_ONCE, tasks, engineBuilds,
                   nClients>>

\* -------------------------------------------------------------------- stop
\* Entry of stop (lines 434-439).
CallStop(t) ==
    /\ pc[t] = "idle"
    /\ frame' = [frame EXCEPT ![t] = NewFrame("stop", 0)]
    /\ pc' = [pc EXCEPT ![t] = "st_take"]
    /\ UNCHANGED extVars
    /\ UNCHANGED <<TOKIO_RUNTIME, ARTI_CLIENT, SOCKS_TASK, INIT_ONCE, lock,
                   tasks, engineBuilds, nClients, lastReturned>>

\* "Abort SOCKS proxy task" (lines 441-445).
StopTake(t) ==
    /\ pc[t] = "st_take"
    /\ Free("SOCKS_TASK")
    /\ frame' = [frame EXCEPT ![t].taken = SOCKS_TASK]
    /\ SOCKS_TASK' = None
    /\ tasks' = Abort(tasks, SOCKS_TASK)
    /\ pc' = [pc EXCEPT ![t] = "st_rt"]
    /\ UNCHANGED extVars
    /\ UNCHANGED <<TOKIO_RUNTIME, ARTI_CLIENT, INIT_ONCE, lock, engineBuilds,
                   nClients, lastReturned>>

\* if let Some(rt) = TOKIO_RUNTIME.lock().unwrap().as_ref() (line 448): the
\* guard is a temporary of the scrutinee and lives to the end of the if-let
\* block, that is across the block_on inside it.  With no engine the sleep is
\* skipped and stop returns (lines 454-464).
StopRuntime(t) ==
    /\ pc[t] = "st_rt"
    /\ Free("TOKIO_RUNTIME")
    /\ IF TOKIO_RUNTIME = None
       THEN /\ pc' = [pc EXCEPT ![t] = "idle"]
            /\ frame' = [frame EXCEPT ![t] = Returned(@, "none", STOP_OK)]
            /\ lastReturned' = "stop"
            /\ UNCHANGED lock
       ELSE /\ pc' = [pc EXCEPT ![t] = "st_sleep"]
            /\ lock' = Acquire(t, "TOKIO_RUNTIME")
            /\ UNCHANGED <<frame, lastReturned>>
    /\ UNCHANGED extVars
    /\ UNCHANGED <<TOKIO_RUNTIME, ARTI_CLIENT, SOCKS_TASK, INIT_ONCE, tasks,
                   engineBuilds, nClients>>

\* StopSleep with the line that clears ARTI_CLIENT (line 459) active.
StopSleepClearsClient(t) ==
    /\ pc[t] = "st_sleep"
    /\ lock' = Release(t, "TOKIO_RUNTIME")
    /\ ARTI_CLIENT' = None
    /\ frame' = [frame EXCEPT ![t] = Returned(@, "none", STOP_OK)]
    /\ pc' = [pc EXCEPT ![t] = "idle"]
    /\ lastReturned' = "stop"
    /\ UNCHANGED extVars
    /\ UNCHANGED <<TOKIO_RUNTIME, SOCKS_TASK, INIT_ONCE, tasks, engineBuilds,
                   nClients>>

\* The 100 ms sleep ends and stop returns (lines 449-464).  ARTI_CLIENT is
\* deliberately left alone.
StopSleep(t) ==
    /\ pc[t] = "st_sleep"
    /\ lock' = Release(t, "TOKIO_RUNTIME")
    /\ frame' = [frame EXCEPT ![t] = Returned(@, "none", STOP_OK)]
    /\ pc' = [pc EXCEPT ![t] = "idle"]
    /\ lastReturned' = "stop"
    /\ UNCHANGED extVars
    /\ UNCHANGED <<TOKIO_RUNTIME, ARTI_CLIENT, SOCKS_TASK, INIT_ONCE, tasks,
                   engineBuilds, nClients>>

\* ------------------------------------------------------------------ engine
\* EngineDrop of a scheduler that cancels a task's children with it: the
\* handlers the listener spawned end when the listener is dropped.
EngineDropCancelsChildren(i) ==
    /\ tasks[i].st = "aborting"
    /\ tasks' = [tasks EXCEPT ![i].st = "dropped"]
    /\ handlers' = [handlers EXCEPT ![i] = << >>]
    /\ UNCHANGED <<TOKIO_RUNTIME, ARTI_CLIENT, SOCKS_TASK, INIT_ONCE, lock, pc,
                   frame, engineBuilds, nClients, lastReturned, conn,
                   lockVars>>

\* The engine acts on a requested abort: it drops the task's future, and with
\* it the bound listener socket.
EngineDrop(i) ==
    /\ tasks[i].st = "aborting"
    /\ tasks' = [tasks EXCEPT ![i].st = "dropped"]
    /\ UNCHANGED extVars
    /\ UNCHANGED <<TOKIO_RUNTIME, ARTI_CLIENT, SOCKS_TASK, INIT_ONCE, lock, pc,
                   frame, engineBuilds, nClients, lastReturned>>

\* listener.accept() fails (lines 288-295): the loop breaks and the task ends,
\* closing its socket.  Its JoinHandle stays wherever it is.
AcceptError(i) ==
    /\ tasks[i].st = "running"
    /\ tasks' = [tasks EXCEPT ![i].st = "exited"]
    /\ UNCHANGED extVars
    /\ UNCHANGED <<TOKIO_RUNTIME, ARTI_CLIENT, SOCKS_TASK, INIT_ONCE, lock, pc,
                   frame, engineBuilds, nClients, lastReturned>>

\* The handlers running now, over the listener tasks 1..n.
RECURSIVE RunningHandlers(_)
RunningHandlers(n) ==
    IF n = 0 THEN 0 ELSE Len(handlers[n]) + RunningHandlers(n - 1)

\* AcceptOk using the handle in ARTI_CLIENT at the time of the accept instead
\* of the clone the listener task captured.
AcceptOkCurrentClient(i) ==
    /\ Live(i)
    /\ RunningHandlers(MaxTasks) < MaxHandlers
    /\ handlers' = [handlers EXCEPT ![i] = Append(@, Unwrap(ARTI_CLIENT))]
    /\ UNCHANGED <<lifeVars, conn, lockVars>>

\* AcceptOk of a loop that goes on after an accept error instead of breaking.
AcceptOkAfterError(i) ==
    /\ tasks[i].st \in {"running", "aborting", "exited"}
    /\ RunningHandlers(MaxTasks) < MaxHandlers
    /\ handlers' = [handlers EXCEPT ![i] = Append(@, tasks[i].client)]
    /\ UNCHANGED <<lifeVars, conn, lockVars>>

\* listener.accept() succeeds (lines 277-287): a handler is spawned, detached,
\* with a clone of the client the listener task captured when it was spawned.
\* The task accepts for as long as the engine runs it: until it ends, or until
\* the engine acts on a requested abort.
AcceptOk(i) ==
    /\ Live(i)
    /\ RunningHandlers(MaxTasks) < MaxHandlers
    /\ handlers' = [handlers EXCEPT ![i] = Append(@, tasks[i].client)]
    /\ UNCHANGED <<lifeVars, conn, lockVars>>

\* handle_socks_connection returns (lines 283-285): the k-th running handler
\* of listener i ends because its own I/O has completed or failed.
HandlerEnds(i, k) ==
    /\ k \in 1..Len(handlers[i])
    /\ handlers' = [handlers EXCEPT
                      ![i] = SubSeq(@, 1, k - 1) \o SubSeq(@, k + 1, Len(@))]
    /\ UNCHANGED <<lifeVars, conn, lockVars>>

\* One step of thread t inside, or into, each of the three calls.
InitializeStep(t) ==
    \/ CallInitialize(t) \/ InitOnce(t) \/ InitRuntime(t) \/ InitConfig(t)
    \/ InitBootstrap(t)

StartProxyStep(t) ==
    \/ CallStartProxy(t) \/ StartTake(t) \/ StartClient(t) \/ StartRuntime(t)
    \/ StartBind(t) \/ StartSpawn(t) \/ StartStore(t)

StopStep(t) ==
    \/ CallStop(t) \/ StopTake(t) \/ StopRuntime(t) \/ StopSleep(t)

\* One step of caller thread t.
ThreadStep(t) == InitializeStep(t) \/ StartProxyStep(t) \/ StopStep(t)

\* One step of the engine on one of its listener tasks.
EngineStep ==
    \/ \E i \in 1..Len(tasks) : EngineDrop(i)
    \/ \E i \in 1..Len(tasks) : AcceptError(i)

\* Any number of threads call concurrently.
Next == (\E t \in Threads : ThreadStep(t)) \/ EngineStep

Spec == Init /\ [][Next]_vars

\* A single logical caller: only thread 1 issues calls.
SeqNext == ThreadStep(1) \/ EngineStep

SeqSpec == Init /\ [][SeqNext]_vars

\* Any number of threads call initialize, and nothing else, concurrently.
InitNext == \E t \in Threads : InitializeStep(t)

InitSpec == Init /\ [][InitNext]_vars

\* The accept loops and the handlers they spawn.
ConnectionStep ==
    \/ \E i \in 1..Len(tasks) : AcceptOk(i)
    \/ \E i \in 1..Len(tasks) : \E k \in 1..MaxHandlers : HandlerEnds(i, k)

\* A single caller, the listener tasks it starts and the connections they
\* accept.
ListenNext == ThreadStep(1) \/ EngineStep \/ ConnectionStep

ListenSpec == Init /\ [][ListenNext]_vars

\* ------------------------------------------------ handle_socks_connection
\* buf[i] of the source (indices from 0).
At(buf, i) == buf[i + 1]

\* &buf[from..to] of the source.
Slice(buf, from, to) == SubSeq(buf, from + 1, to)

\* Host names are strings, modelled as sequences of character codes.
\* "{}" of a u8: its decimal digits, no padding.
RECURSIVE Dec(_)
Dec(b) == IF b < 10 THEN <<48 + b>> ELSE Dec(b \div 10) \o <<48 + (b % 10)>>

\* One lower-case hexadecimal digit.
HexDigit(d) == IF d < 10 THEN 48 + d ELSE 87 + d

\* "{:02x}" of a u8.
Hex2(b) == <<HexDigit(b \div 16), HexDigit(b % 16)>>

\* format!("{}.{}.{}.{}", buf[4], buf[5], buf[6], buf[7]) (line 348).
FormatIpv4(buf) ==
    Dec(At(buf, 4)) \o <<46>> \o Dec(At(buf, 5)) \o <<46>> \o
    Dec(At(buf, 6)) \o <<46>> \o Dec(At(buf, 7))

\* Groups g..7 of the format! of lines 369-373, each "{:02x}{:02x}", joined
\* by ':'.
RECURSIVE Ipv6Groups(_, _)
Ipv6Groups(buf, g) ==
    LET group == Hex2(At(buf, 4 + 2 * g)) \o Hex2(At(buf, 5 + 2 * g))
    IN  IF g = 7 THEN group ELSE group \o <<58>> \o Ipv6Groups(buf, g + 1)

FormatIpv6(buf) == Ipv6Groups(buf, 0)

\* String::from_utf8_lossy (line 358) on the bytes the model uses: an ASCII
\* byte is kept, and a byte 0xFF, which occurs in no UTF-8 encoding, becomes
\* U+FFFD REPLACEMENT CHARACTER (EF BF BD).  Any other byte of 0x80 and above
\* would need the UTF-8 decoder and is not among the inputs.
RECURSIVE FromUtf8Lossy(_)
FromUtf8Lossy(bytes) ==
    IF bytes = << >> THEN << >>
    ELSE IF Len(bytes) = 1
         THEN (IF bytes[1] < 128 THEN bytes ELSE <<239, 191, 189>>)
    ELSE LET half == Len(bytes) \div 2
         IN  FromUtf8Lossy(SubSeq(bytes, 1, half))
             \o FromUtf8Lossy(SubSeq(bytes, half + 1, Len(bytes)))

\* u16::from_be_bytes([hi, lo]).
U16FromBe(hi, lo) == (hi * 256 + lo) % 65536

\* What the code between two awaits decides after the request read.
Fail(cause) ==
    [next |-> "closed", cause |-> cause, code |-> None,
     target_host |-> << >>, target_port |-> 0]
Reject(code, cause) ==
    [next |-> "write_reject", cause |-> cause, code |-> Some(code),
     target_host |-> << >>, target_port |-> 0]
Target(host, port) ==
    [next |-> "connect", cause |-> "none", code |-> None,
     target_host |-> host, target_port |-> port]

\* ParseAddress that answers a truncated IPv6 request like an unknown
\* address type.
ParseAddressOneCode(buf, n) ==
    IF At(buf, 3) = ATYP_IPV4
    THEN Target(FormatIpv4(buf), U16FromBe(At(buf, 8), At(buf, 9)))
    ELSE IF At(buf, 3) = ATYP_DOMAIN
         THEN LET len == At(buf, 4)
              IN  IF n < 5 + len + 2 THEN Fail("invalid_domain_length")
                  ELSE Target(FromUtf8Lossy(Slice(buf, 5, 5 + len)),
                              U16FromBe(At(buf, 5 + len), At(buf, 5 + len + 1)))
    ELSE IF At(buf, 3) = ATYP_IPV6 /\ n >= MIN_IPV6_REQUEST
         THEN Target(FormatIpv6(buf), U16FromBe(At(buf, 20), At(buf, 21)))
    ELSE Reject(REP_ATYP_NOT_SUPPORTED, "unsupported_atyp")

\* Lines 345-381: the target address and port, by address type.
ParseAddress(buf, n) ==
    IF At(buf, 3) = ATYP_IPV4
    THEN Target(FormatIpv4(buf), U16FromBe(At(buf, 8), At(buf, 9)))
    ELSE IF At(buf, 3) = ATYP_DOMAIN
         THEN LET len == At(buf, 4)
              IN  IF n < 5 + len + 2 THEN Fail("invalid_domain_length")
                  ELSE Target(FromUtf8Lossy(Slice(buf, 5, 5 + len)),
                              U16FromBe(At(buf, 5 + len), At(buf, 5 + len + 1)))
    ELSE IF At(buf, 3) = ATYP_IPV6
         THEN IF n < MIN_IPV6_REQUEST
              THEN Reject(REP_GENERAL_FAILURE, "truncated_ipv6")
              ELSE Target(FormatIpv6(buf), U16FromBe(At(buf, 20), At(buf, 21)))
    ELSE Reject(REP_ATYP_NOT_SUPPORTED, "unsupported_atyp")

\* ParseRequest with the command checked before the version.
ParseRequestCmdFirst(buf, n) ==
    IF n < MIN_REQUEST THEN Fail("invalid_request")
    ELSE IF At(buf, 1) # CMD_CONNECT
         THEN Reject(REP_COMMAND_NOT_SUPPORTED, "unsupported_command")
    ELSE IF At(buf, 0) # SOCKS_VERSION THEN Fail("unsupported_version")
    ELSE ParseAddress(buf, n)

\* Lines 324-343: the checks on the n bytes the request read returned, in the
\* order of the code: length, version, command; then the address.
ParseRequest(buf, n) ==
    IF n < MIN_REQUEST THEN Fail("invalid_request")
    ELSE IF At(buf, 0) # SOCKS_VERSION THEN Fail("unsupported_version")
    ELSE IF At(buf, 1) # CMD_CONNECT
         THEN Reject(REP_COMMAND_NOT_SUPPORTED, "unsupported_command")
    ELSE ParseAddress(buf, n)

\* The 2-byte method selection (line 322) and the 10-byte reply (lines 341,
\* 366, 378, 391, 399).
MethodReply == <<SOCKS_VERSION, 0>>
Reply(code) == <<SOCKS_VERSION, code, 0, ATYP_IPV4, 0, 0, 0, 0, 0, 0>>

\* The inputs tried: the bytes one read of the request returns.
Versions == {4, SOCKS_VERSION}
Commands == {CMD_CONNECT, 2}
AddrBytes == {0, 10, 255}
Ipv6Bytes == {0, 1, 171, 255}
NameBytes == {46, 97, 255}
PortBytes == {<<0, 80>>, <<1, 187>>, <<255, 255>>}
LongNameLens == {5, 255}

Ipv4Addrs == {<<a, b, c, d>> : a \in AddrBytes, b \in AddrBytes,
                               c \in AddrBytes, d \in AddrBytes}
Ipv6Addrs ==
    {[i \in 1..16 |-> IF i % 2 = 1 THEN a ELSE b] : a \in Ipv6Bytes,
                                                   b \in Ipv6Bytes}
DomainNames ==
    UNION {[1..k -> NameBytes] : k \in 1..MaxDomainLen}
    \cup {[i \in 1..k |-> 97] : k \in LongNameLens}

\* VER CMD RSV ATYP DST.ADDR DST.PORT, whole.
FullRequests ==
    UNION {
        {<<v, c, 0, ATYP_IPV4>> \o a \o p : a \in Ipv4Addrs, p \in PortBytes}
        \cup {<<v, c, 0, ATYP_DOMAIN, Len(d)>> \o d \o p :
                 d \in DomainNames, p \in PortBytes}
        \cup {<<v, c, 0, ATYP_IPV6>> \o a \o p :
                 a \in Ipv6Addrs, p \in PortBytes}
        \cup {<<v, c, 0, t, 0, 0, 0, 0>> \o p : t \in {0, 9}, p \in PortBytes}
        : v \in Versions, c \in Commands}

\* What one read can return: a request, or any part of it from its start.
Requests == UNION {{SubSeq(r, 1, k) : k \in 0..Len(r)} : r \in FullRequests}

\* return Err(..) or Ok(()): the handler is over.
Close(cause) == [conn EXCEPT !.pc = "closed", !.cause = cause]

\* stream.read(&mut buf).await? of the greeting and the check of line 317.
ReadGreeting(n, ioOk) ==
    /\ conn.pc = "read_greeting"
    /\ conn' = IF ~ioOk THEN Close("io_error")
               ELSE IF n < MIN_GREETING
                    THEN [Close("invalid_handshake") EXCEPT !.n = n]
               ELSE [conn EXCEPT !.pc = "write_method", !.n = n]
    /\ UNCHANGED <<lifeVars, handlers, lockVars>>

\* stream.write_all(&[0x05, 0x00]).await? (line 322).
WriteMethod(ioOk) ==
    /\ conn.pc = "write_method"
    /\ conn' = IF ~ioOk THEN Close("io_error")
               ELSE [conn EXCEPT !.pc = "read_request",
                                 !.written = Append(@, MethodReply)]
    /\ UNCHANGED <<lifeVars, handlers, lockVars>>

\* stream.read(&mut buf).await? of the request and everything up to the next
\* await (lines 325-381).
ReadRequest(req, ioOk) ==
    /\ conn.pc = "read_request"
    /\ conn' = IF ~ioOk THEN Close("io_error")
               ELSE LET parsed == ParseRequest(req, Len(req))
                    IN  [conn EXCEPT !.pc = parsed.next,
                                     !.buf = req,
                                     !.n = Len(req),
                                     !.read = TRUE,
                                     !.cause = parsed.cause,
                                     !.code = parsed.code,
                                     !.target_host = parsed.target_host,
                                     !.target_port = parsed.target_port]
    /\ UNCHANGED <<lifeVars, handlers, lockVars>>

\* The write_all of an error reply and the return Err after it (lines 341-342,
\* 366-367, 378-379, 391-392).
WriteReject(ioOk) ==
    /\ conn.pc = "write_reject"
    /\ conn' = IF ~ioOk THEN Close("io_error")
               ELSE [conn EXCEPT !.pc = "closed",
                                 !.written = Append(@, Reply(Unwrap(conn.code)))]
    /\ UNCHANGED <<lifeVars, handlers, lockVars>>

\* Connect that goes on to the success reply whatever the connect returned.
ConnectIgnoresFailure(ok) ==
    /\ conn.pc = "connect"
    /\ conn' = [conn EXCEPT !.pc = "write_success",
                            !.connects = @ + 1,
                            !.connected = ok]
    /\ UNCHANGED <<lifeVars, handlers, lockVars>>

\* client.connect((target_host, target_port)).await (lines 386-394).
Connect(ok) ==
    /\ conn.pc = "connect"
    /\ conn' = IF ok
               THEN [conn EXCEPT !.pc = "write_success",
                                 !.connects = @ + 1,
                                 !.connected = TRUE]
               ELSE [conn EXCEPT !.pc = "write_reject",
                                 !.connects = @ + 1,
                                 !.code = Some(REP_CONNECTION_REFUSED),
                                 !.cause = "connect_failed"]
    /\ UNCHANGED <<lifeVars, handlers, lockVars>>

\* stream.write_all of the success reply (line 399).
WriteSuccess(ioOk) ==
    /\ conn.pc = "write_success"
    /\ conn' = IF ~ioOk THEN Close("io_error")
               ELSE [conn EXCEPT !.pc = "relay",
                                 !.written = Append(@, Reply(REP_SUCCEEDED))]
    /\ UNCHANGED <<lifeVars, handlers, lockVars>>

\* One chunk copied by tokio::io::copy in direction d (lines 405-411), in a
\* poll in which neither copy has completed.
CopyChunk(d) ==
    /\ conn.pc = "relay"
    /\ conn.ready = {}
    /\ conn.copied[d] < MaxRelay
    /\ conn' = [conn EXCEPT !.copied[d] = @ + 1]
    /\ UNCHANGED <<lifeVars, handlers, lockVars>>

\* The source of direction d reaches end-of-stream or fails: the copy future
\* of d returns at its next poll.
CopyCompletes(d) ==
    /\ conn.pc = "relay"
    /\ d \notin conn.ready
    /\ conn' = [conn EXCEPT !.ready = @ \cup {d}]
    /\ UNCHANGED <<lifeVars, handlers, lockVars>>

\* SelectReturns of a handler that joins the two copies: it returns when both
\* have completed.
SelectReturnsAfterBoth(lastChunk) ==
    /\ conn.pc = "relay"
    /\ conn.ready = Directions
    /\ lastChunk \in BOOLEAN
    /\ conn' = [conn EXCEPT !.pc = "closed"]
    /\ UNCHANGED <<lifeVars, handlers, lockVars>>

\* tokio::select! (lines 414-425): the poll in which a copy future returns.
\* select! polls its branches in no fixed order, so the other direction may
\* copy one last chunk in that poll; then the other future is dropped and the
\* handler returns Ok(()), whether the copy ended in Ok or in Err.
SelectReturns(lastChunk) ==
    /\ conn.pc = "relay"
    /\ conn.ready # {}
    /\ conn' = IF lastChunk /\ \E d \in Directions \ conn.ready :
                                  conn.copied[d] < MaxRelay
               THEN LET d == CHOOSE e \in Directions \ conn.ready :
                                  conn.copied[e] < MaxRelay
                    IN  [conn EXCEPT !.pc = "closed", !.copied[d] = @ + 1]
               ELSE [conn EXCEPT !.pc = "closed"]
    /\ UNCHANGED <<lifeVars, handlers, lockVars>>

\* The request read with any of the inputs tried.
ReadRequestStep ==
    /\ conn.pc = "read_request"
    /\ \E req \in Requests : \E ioOk \in BOOLEAN : ReadRequest(req, ioOk)

\* One connection from the accept to the return of its handler.
ConnNext ==
    \/ \E n \in 0..MaxGreeting : \E ioOk \in BOOLEAN : ReadGreeting(n, ioOk)
    \/ \E ioOk \in BOOLEAN : WriteMethod(ioOk)
    \/ ReadRequestStep
    \/ \E ioOk \in BOOLEAN : WriteReject(ioOk)
    \/ \E ok \in BOOLEAN : Connect(ok)
    \/ \E ioOk \in BOOLEAN : WriteSuccess(ioOk)
    \/ \E d \in Directions : CopyChunk(d)
    \/ \E d \in Directions : CopyCompletes(d)
    \/ \E lastChunk \in BOOLEAN : SelectReturns(lastChunk)

ConnSpec == Init /\ [][ConnNext]_vars

\* The handler task is polled whenever it can make progress; the peers are
\* under no obligation to send, to accept a connect or to close.
HandlerStep ==
    \/ \E ioOk \in BOOLEAN : WriteMethod(ioOk)
    \/ \E ioOk \in BOOLEAN : WriteReject(ioOk)
    \/ \E ioOk \in BOOLEAN : WriteSuccess(ioOk)
    \/ \E lastChunk \in BOOLEAN : SelectReturns(lastChunk)

ConnFairSpec == ConnSpec /\ WF_vars(HandlerStep)

\* ----------------------------------------------------- lock-level view
\* The five entry points and the logging of the background tasks, as the
\* sequence of mutex operations each performs.  Every instruction is one
\* step; n is the number of instructions a branch skips.
\* let guard = l.lock().unwrap(): blocks until l is free.
Lock(l) == [k |-> "lock", l |-> l, n |-> 0]
\* The guard of l goes out of scope or is dropped.
Unlock(l) == [k |-> "unlock", l |-> l, n |-> 0]
\* l.lock().unwrap().is_none() in an `if` condition: l is locked, read and
\* unlocked in one expression; skips n when the Option is Some.
Test(l, n) == [k |-> "test", l |-> l, n |-> n]
\* *l.lock().unwrap() = Some(..): l is locked, written and unlocked in one
\* statement.
Store(l) == [k |-> "store", l |-> l, n |-> 0]
\* .take() on the guard the thread holds.
Take(l) == [k |-> "take", l |-> l, n |-> 0]
\* A match on the guard the thread holds: skips n when the Option is None.
IfNone(l, n) == [k |-> "if_none", l |-> l, n |-> n]
\* The same, skipping n when the Option is Some.
IfSome(l, n) == [k |-> "if_some", l |-> l, n |-> n]
\* A fallible call that takes no mutex: goes on, or skips n.
Either(n) == [k |-> "either", l |-> "none", n |-> n]
\* runtime.block_on(..) returns: goes on, or skips n.
Await(n) == [k |-> "await", l |-> "none", n |-> n]
\* The end of a branch: skips n.
Jump(n) == [k |-> "jump", l |-> "none", n |-> n]
\* INIT_ONCE.call_once: runs the closure if nobody has, waits while another
\* thread runs it, skips the n instructions of the closure when it has run.
OnceEnter(n) == [k |-> "once_enter", l |-> "none", n |-> n]
OnceExit == [k |-> "once_exit", l |-> "none", n |-> 0]
\* runtime.spawn of the listener task.
Spawn == [k |-> "spawn", l |-> "none", n |-> 0]
\* env.call_method(callback, "onLogLine", ..) if both Options are Some, then
\* both guards of send_log_to_java go out of scope.
Callback == [k |-> "callback", l |-> "none", n |-> 0]
Ret == [k |-> "ret", l |-> "none", n |-> 0]

\* send_log_to_java (lines 41-57), which log_info! and log_error! call:
\* JAVA_VM, then LOG_CALLBACK, both held over the call into Java.  Log lines
\* that follow one another with no mutex operation between them are one Log.
Log == <<Lock("JAVA_VM"), Lock("LOG_CALLBACK"), Callback>>

\* "Cache JavaVM" (lines 87-91, 106-110, 127-131).
CacheVm == <<Test("JAVA_VM", 2), Either(1), Store("JAVA_VM")>>

\* Lines 82-96.
GetVersionLocks == CacheVm \o <<Ret>>

\* Lines 100-117.
SetLogCallbackLocks ==
    CacheVm \o <<Either(4), Store("LOG_CALLBACK")>> \o Log \o <<Ret>>

\* Lines 121-209.
InitializeLocks ==
    CacheVm
    \o <<Either(4)>> \o Log \o <<Ret>>                        \* 133-139
    \o Log                                                     \* 141-142
    \o <<OnceEnter(10), Either(5)>>                            \* 145-146
    \o Log \o <<Store("TOKIO_RUNTIME"), Jump(3)>>              \* 151-152
    \o Log                                                     \* 155
    \o <<OnceExit>>
    \o <<Lock("TOKIO_RUNTIME"), IfSome("TOKIO_RUNTIME", 5)>>   \* 161-162
    \o Log \o <<Unlock("TOKIO_RUNTIME"), Ret>>                 \* 165-166
    \o Log                                                     \* 180-182
    \o <<Either(10), Await(9)>>                                \* 185-189
    \o Log \o <<Store("ARTI_CLIENT")>>                         \* 191-194
    \o Log \o <<Unlock("TOKIO_RUNTIME"), Ret>>                 \* 201-202
    \o Log \o <<Unlock("TOKIO_RUNTIME"), Ret>>                 \* 205-206

\* StopLocks of a stop that looks at the engine inside the `if let` of the
\* listener slot.
StopLocksNested ==
    Log
    \o <<Lock("SOCKS_TASK"), IfNone("SOCKS_TASK", 4), Take("SOCKS_TASK")>>
    \o Log
    \o <<Lock("TOKIO_RUNTIME"), IfNone("TOKIO_RUNTIME", 1), Await(0),
         Unlock("TOKIO_RUNTIME"), Unlock("SOCKS_TASK")>>
    \o Log \o <<Ret>>

\* Lines 434-465.
StopLocks ==
    Log                                                                \* 438
    \o <<Lock("SOCKS_TASK"), IfNone("SOCKS_TASK", 4), Take("SOCKS_TASK")>>
    \o Log \o <<Unlock("SOCKS_TASK")>>                                 \* 442-445
    \o <<Lock("TOKIO_RUNTIME"), IfNone("TOKIO_RUNTIME", 1), Await(0),
         Unlock("TOKIO_RUNTIME")>>                                     \* 448-452
    \o Log \o <<Ret>>                                                  \* 461-464

\* Lines 213-303.
StartProxyLocks ==
    Log                                                                \* 218
    \o <<Lock("SOCKS_TASK"), IfNone("SOCKS_TASK", 4), Take("SOCKS_TASK")>>
    \o Log \o <<Unlock("SOCKS_TASK")>>                                 \* 222-225
    \o <<Lock("ARTI_CLIENT"), IfSome("ARTI_CLIENT", 5)>>               \* 227-228
    \o Log \o <<Unlock("ARTI_CLIENT"), Ret>>                           \* 231-232
    \o <<Unlock("ARTI_CLIENT")>>                                       \* 235
    \o <<Lock("TOKIO_RUNTIME"), IfSome("TOKIO_RUNTIME", 5)>>           \* 237-238
    \o Log \o <<Unlock("TOKIO_RUNTIME"), Ret>>                         \* 241-242
    \o <<Await(4)>>                                                    \* 250-254
    \o Log \o <<Jump(5)>>                                              \* 256
    \o Log \o <<Unlock("TOKIO_RUNTIME"), Ret>>                         \* 260-261
    \o <<Spawn, Store("SOCKS_TASK")>>                                  \* 266-299
    \o Log \o <<Unlock("TOKIO_RUNTIME"), Ret>>                         \* 301-302

\* A log line of a listener or handler task (lines 267-295, 383-427), on a
\* worker thread of the engine.
TaskLogLocks == Log \o <<Ret>>

CallerOps ==
    {"getVersion", "setLogCallback", "initialize", "startProxy", "stop"}

LocksOf(op) ==
    CASE op = "getVersion" -> GetVersionLocks
      [] op = "setLogCallback" -> SetLogCallbackLocks
      [] op = "initialize" -> InitializeLocks
      [] op = "startProxy" -> StartProxyLocks
      [] op = "stop" -> StopLocks
      [] op = "taskLog" -> TaskLogLocks

\* The instruction thread t executes next.
Instr(t) == LocksOf(at[t].op)[at[t].pos]

\* Thread t goes on n instructions past the next one.
Goto(t, n) == [at EXCEPT ![t].pos = @ + 1 + n]

\* A caller enters one of the five entry points; the worker emits a log line
\* of a task, once a task was spawned.
LockCall(t, op) ==
    /\ at[t].op = "idle"
    /\ IF t = 0 THEN op = "taskLog" /\ spawned ELSE op \in CallerOps
    /\ at' = [at EXCEPT ![t] = [op |-> op, pos |-> 1]]
    /\ UNCHANGED <<held, globals, once, spawned>>
    /\ UNCHANGED <<lifeVars, handlers, conn>>

\* Thread t executes its next instruction.
LockStep(t) ==
    /\ at[t].op # "idle"
    /\ LET i == Instr(t)
       IN  CASE i.k = "lock" ->
                  /\ held[i.l] = None
                  /\ held' = [held EXCEPT ![i.l] = Some(t)]
                  /\ at' = Goto(t, 0)
                  /\ UNCHANGED <<globals, once, spawned>>
             [] i.k = "unlock" ->
                  /\ held' = [held EXCEPT ![i.l] = None]
                  /\ at' = Goto(t, 0)
                  /\ UNCHANGED <<globals, once, spawned>>
             [] i.k = "test" ->
                  /\ held[i.l] = None
                  /\ at' = Goto(t, IF globals[i.l] = "some" THEN i.n ELSE 0)
                  /\ UNCHANGED <<held, globals, once, spawned>>
             [] i.k = "store" ->
                  /\ held[i.l] = None
                  /\ globals' = [globals EXCEPT ![i.l] = "some"]
                  /\ at' = Goto(t, 0)
                  /\ UNCHANGED <<held, once, spawned>>
             [] i.k = "take" ->
                  /\ globals' = [globals EXCEPT ![i.l] = "none"]
                  /\ at' = Goto(t, 0)
                  /\ UNCHANGED <<held, once, spawned>>
             [] i.k = "if_none" ->
                  /\ at' = Goto(t, IF globals[i.l] = "none" THEN i.n ELSE 0)
                  /\ UNCHANGED <<held, globals, once, spawned>>
             [] i.k = "if_some" ->
                  /\ at' = Goto(t, IF globals[i.l] = "some" THEN i.n ELSE 0)
                  /\ UNCHANGED <<held, globals, once, spawned>>
             [] i.k \in {"either", "await"} ->
                  /\ \E ok \in BOOLEAN : at' = Goto(t, IF ok THEN 0 ELSE i.n)
                  /\ UNCHANGED <<held, globals, once, spawned>>
             [] i.k = "jump" ->
                  /\ at' = Goto(t, i.n)
                  /\ UNCHANGED <<held, globals, once, spawned>>
             [] i.k = "once_enter" ->
                  /\ once.st # "running"
                  /\ once' = IF once.st = "new"
                             THEN [st |-> "running", by |-> Some(t)]
                             ELSE once
                  /\ at' = Goto(t, IF once.st = "new" THEN 0 ELSE i.n)
                  /\ UNCHANGED <<held, globals, spawned>>
             [] i.k = "once_exit" ->
                  /\ once' = [st |-> "done", by |-> None]
                  /\ at' = Goto(t, 0)
                  /\ UNCHANGED <<held, globals, spawned>>
             [] i.k = "spawn" ->
                  /\ spawned' = TRUE
                  /\ at' = Goto(t, 0)
                  /\ UNCHANGED <<held, globals, once>>
             [] i.k = "callback" ->
                  /\ held' = [held EXCEPT !["JAVA_VM"] = None,
                                          !["LOG_CALLBACK"] = None]
                  /\ at' = Goto(t, 0)
                  /\ UNCHANGED <<globals, once, spawned>>
             [] i.k = "ret" ->
                  /\ at' = [at EXCEPT ![t] = [op |-> "idle", pos |-> 0]]
                  /\ UNCHANGED <<held, globals, once, spawned>>
    /\ UNCHANGED <<lifeVars, handlers, conn>>

LockNext ==
    \/ \E t \in LockThreads : \E op \in CallerOps \cup {"taskLog"} :
          LockCall(t, op)
    \/ \E t \in LockThreads : LockStep(t)

LockSpec == Init /\ [][LockNext]_vars

\* ------------------------------------------------------------ observations
\* Thread t has returned from a call of operation o.
ReturnedFrom(t, o) == pc[t] = "idle" /\ frame[t].op = o /\ frame[t].ret # None

LiveTasks == {i \in 1..Len(tasks) : Live(i)}

\* No call is in progress and the engine has acted on every requested abort.
Quiescent ==
    /\ \A t \in Threads : pc[t] = "idle"
    /\ \A i \in 1..Len(tasks) : tasks[i].st # "aborting"

\* --------------------------------------------------------------------- C1
\* C1: a startProxy that finds in the slot a listener on the very port it is
\* asked for (a second startProxy on that port, no stop in between) cancels
\* that listener and then binds successfully and returns 0, whenever the
\* engine gets to cancel the old task (the OS refusing the bind for reasons
\* of its own set aside).
C1_SecondBindSucceeds ==
    \A t \in Threads :
        ( /\ ReturnedFrom(t, "startProxy")
          /\ frame[t].taken # None
          /\ tasks[Unwrap(frame[t].taken)].port = frame[t].arg
          /\ frame[t].bind_result # "os_error" )
        => frame[t].ret = Some(START_OK)

\* --------------------------------------------------------------------- C2
\* C2: a startProxy that returns the bind-failure code leaves the listener
\* that was running before the call running and in the slot.  (A task taken
\* from the slot is in state "exited" exactly when it had ended before the
\* call; any other was running.)
C2_BindFailureKeepsListener ==
    \A t \in Threads :
        ( /\ ReturnedFrom(t, "startProxy")
          /\ frame[t].ret = Some(START_ERR_BIND)
          /\ frame[t].taken # None
          /\ tasks[Unwrap(frame[t].taken)].st # "exited" )
        => /\ SOCKS_TASK = frame[t].taken
           /\ tasks[Unwrap(frame[t].taken)].st = "running"

\* --------------------------------------------------------------------- C3
\* C3: with a single caller, at most one listener task holds a bound socket
\* in any state, the states inside startProxy included.
C3_AtMostOneLiveListener == Cardinality(LiveTasks) <= 1

\* --------------------------------------------------------------------- C4
\* C4: under concurrent lifecycle calls, once every call has returned (and
\* the engine has acted on the aborts requested) every running listener is
\* the one whose handle is in the slot, and none runs when stop was the last
\* call to return.
C4_SlotOwnsEveryListener ==
    Quiescent =>
        /\ \A i \in 1..Len(tasks) :
               tasks[i].st = "running" => SOCKS_TASK = Some(i)
        /\ lastReturned = "stop" =>
               \A i \in 1..Len(tasks) : tasks[i].st # "running"

\* --------------------------------------------------------------------- C5
\* C5: a thread waiting in an awaited operation (bootstrap, bind, the grace
\* sleep) holds none of the lifecycle locks.
C5_NoLockAcrossAwait ==
    \A t \in Threads :
        pc[t] \in AwaitPcs => \A l \in Locks : lock[l] # Some(t)

\* --------------------------------------------------------------------- C6
\* C6: a listener task is spawned and stored only after the client-handle
\* check and the bind have both succeeded.  A startProxy that returned -1
\* attempted no bind and spawned nothing, one that returned -3 spawned
\* nothing, and one that returned 0 stored the task it spawned, which owns
\* the socket bound to the requested port and the handle the call cloned.
C6_SpawnOnlyAfterChecks ==
    /\ \A t \in Threads :
          /\ frame[t].handle # None =>
                /\ frame[t].client # None
                /\ frame[t].bind_result = "ok"
                /\ Unwrap(frame[t].handle) \in 1..Len(tasks)
          /\ ReturnedFrom(t, "startProxy") =>
                /\ frame[t].ret = Some(START_ERR_CLIENT) =>
                      /\ frame[t].bind_result = "none"
                      /\ frame[t].listener = None
                      /\ frame[t].handle = None
                /\ frame[t].ret = Some(START_ERR_BIND) =>
                      /\ frame[t].bind_result \in {"in_use", "os_error"}
                      /\ frame[t].listener = None
                      /\ frame[t].handle = None
                /\ frame[t].ret = Some(START_OK) =>
                      /\ frame[t].handle # None
                      /\ tasks[Unwrap(frame[t].handle)].port = frame[t].arg
                      /\ tasks[Unwrap(frame[t].handle)].client =
                             Unwrap(frame[t].client)
    /\ SOCKS_TASK # None => Unwrap(SOCKS_TASK) \in 1..Len(tasks)
    /\ \A i \in 1..Len(tasks) :
          tasks[i].client \in 1..nClients /\ tasks[i].port \in Ports

\* A startProxy has returned -3 after an earlier one had returned 0: the one
\* task there is is the earlier call's, and the failed call spawned none.
C6_Witness ==
    \E t \in Threads :
        /\ ReturnedFrom(t, "startProxy")
        /\ frame[t].ret = Some(START_ERR_BIND)
        /\ frame[t].taken = Some(1)
        /\ Len(tasks) = 1

\* --------------------------------------------------------------------- C7
\* C7: stop never clears the client handle.  With a single caller the handle
\* of the last successful initialize is in ARTI_CLIENT in every state from
\* then on, whatever startProxy / stop cycles follow; so startProxy returns
\* "not initialized" only when no initialize ever succeeded, and a startProxy
\* whose bind succeeds returns 0 with a task that uses that very handle.
C7_StopKeepsClient ==
    /\ ARTI_CLIENT = (IF nClients = 0 THEN None ELSE Some(nClients))
    /\ \A t \in Threads :
          ReturnedFrom(t, "startProxy") =>
             /\ frame[t].ret = Some(START_ERR_CLIENT) => nClients = 0
             /\ frame[t].bind_result = "ok" =>
                   /\ frame[t].ret = Some(START_OK)
                   /\ Some(tasks[Unwrap(frame[t].handle)].client) = ARTI_CLIENT

\* A startProxy has succeeded on an empty slot although an earlier listener
\* had been started and cancelled (a stop lies in between), with the one
\* handle the only initialize created.
C7_Witness ==
    \E t \in Threads :
        /\ ReturnedFrom(t, "startProxy")
        /\ frame[t].ret = Some(START_OK)
        /\ frame[t].taken = None
        /\ frame[t].handle = Some(2)
        /\ tasks[1].st \in {"aborting", "dropped"}
        /\ nClients = 1

\* --------------------------------------------------------------------- C8
\* C8 as claimed: two initialize calls that failed for different causes among
\* engine creation, config build and bootstrap returned different codes.
C8_PairwiseDistinctCodes ==
    \A t, u \in Threads :
        ( /\ ReturnedFrom(t, "initialize")
          /\ ReturnedFrom(u, "initialize")
          /\ frame[t].cause \in {"engine", "config", "bootstrap"}
          /\ frame[u].cause \in {"engine", "config", "bootstrap"}
          /\ frame[t].cause # frame[u].cause )
        => frame[t].ret # frame[u].ret

\* C8 as amended: an engine-creation failure returns -2, and a config-build
\* failure and a bootstrap failure both return -3; success returns 0 and no
\* failure does.
C8_EngineCodeDistinctOnly ==
    \A t \in Threads :
        ReturnedFrom(t, "initialize") =>
           /\ frame[t].cause = "engine" => frame[t].ret = Some(-2)
           /\ frame[t].cause = "config" => frame[t].ret = Some(-3)
           /\ frame[t].cause = "bootstrap" => frame[t].ret = Some(-3)
           /\ frame[t].cause = "none" <=> frame[t].ret = Some(0)

\* One initialize has failed in the config build and another in bootstrap.
C8_Witness ==
    \E t, u \in Threads :
        /\ ReturnedFrom(t, "initialize") /\ frame[t].cause = "config"
        /\ ReturnedFrom(u, "initialize") /\ frame[u].cause = "bootstrap"

\* --------------------------------------------------------------------- C9
\* A thread that cannot take its next step waits for a mutex.
WaitsFor(t) ==
    CASE pc[t] \in {"init_once", "init_rt", "sp_rt", "st_rt"} -> "TOKIO_RUNTIME"
      [] pc[t] \in {"sp_take", "sp_store", "st_take"} -> "SOCKS_TASK"
      [] pc[t] \in {"sp_client", "init_bootstrap"} -> "ARTI_CLIENT"
      [] OTHER -> "none"

\* C9: under any interleaving of calls the engine is built at most once and,
\* once stored, is never removed or replaced; an initialize in progress is
\* never stuck (it can step, or the thread holding the mutex it waits for
\* can); and an initialize that returned 0 leaves a client handle and the
\* engine in place.
C9_EngineOnceNoDeadlock ==
    /\ engineBuilds <= 1
    /\ TOKIO_RUNTIME = (IF engineBuilds = 0 THEN None ELSE Some(1))
    /\ INIT_ONCE = "new" => engineBuilds = 0
    /\ \A t \in Threads :
          /\ pc[t] \in InitPcs =>
                \/ ENABLED ThreadStep(t)
                \/ \E u \in Threads \ {t} :
                      /\ lock[WaitsFor(t)] = Some(u)
                      /\ ENABLED ThreadStep(u)
          /\ ReturnedFrom(t, "initialize") /\ frame[t].ret = Some(INIT_OK) =>
                ARTI_CLIENT # None /\ TOKIO_RUNTIME # None

\* A second initialize has succeeded on the engine the first one built.
C9_Witness ==
    /\ nClients = 2
    /\ engineBuilds = 1
    /\ \E t \in Threads :
          ReturnedFrom(t, "initialize") /\ frame[t].ret = Some(INIT_OK)

\* -------------------------------------------------------------------- C10
\* C10: with a single caller, whenever stop has returned it returned 0, the
\* listener slot is empty, and the task it took from the slot, if any, is no
\* longer running unrequested: its abort has been requested or it had ended.
C10_StopAlwaysStops ==
    \A t \in Threads :
        ReturnedFrom(t, "stop") =>
           /\ frame[t].ret = Some(STOP_OK)
           /\ SOCKS_TASK = None
           /\ frame[t].taken # None =>
                 tasks[Unwrap(frame[t].taken)].st # "running"

\* stop has returned after taking a listener whose abort the engine has not
\* yet acted on.
C10_Witness ==
    \E t \in Threads :
        /\ ReturnedFrom(t, "stop")
        /\ frame[t].taken # None
        /\ tasks[Unwrap(frame[t].taken)].st = "aborting"

\* -------------------------------------------------------------------- C11
\* Some handler stops running in this step.
HandlerStops == \E i \in 1..MaxTasks : Len(handlers'[i]) < Len(handlers[i])

\* C11: cancelling a listener (by stop or by a replacing startProxy) cancels
\* none of the handlers it spawned: a running handler stops running only in a
\* step of its own, in which no caller and no listener task moves; and stop
\* never waits for a handler: whatever the handlers do, a stop in progress
\* can take its next step.
C11_HandlersOutliveListener ==
    /\ [][HandlerStops => UNCHANGED <<tasks, pc, SOCKS_TASK>>]_vars
    /\ [](pc[1] \in StopPcs => ENABLED StopStep(1))

\* stop has returned, the engine has dropped the listener it cancelled, and a
\* handler of that listener is still running.
C11_Witness ==
    \E i \in 1..Len(tasks) :
        /\ ReturnedFrom(1, "stop")
        /\ frame[1].taken = Some(i)
        /\ tasks[i].st = "dropped"
        /\ handlers[i] # << >>

\* -------------------------------------------------------------------- C12
\* The wire format, read back from a host string.
\* The pieces of str between the occurrences of sep.
RECURSIVE Split(_, _)
Split(str, sep) ==
    IF \A i \in 1..Len(str) : str[i] # sep THEN <<str>>
    ELSE LET i == CHOOSE k \in 1..Len(str) :
                      str[k] = sep /\ \A j \in 1..(k - 1) : str[j] # sep
         IN  <<SubSeq(str, 1, i - 1)>> \o Split(SubSeq(str, i + 1, Len(str)), sep)

\* The number a string of decimal digits denotes.
RECURSIVE DecValue(_)
DecValue(str) ==
    IF str = << >> THEN 0
    ELSE 10 * DecValue(SubSeq(str, 1, Len(str) - 1)) + (str[Len(str)] - 48)

IsDecimal(str) ==
    /\ str # << >>
    /\ \A i \in 1..Len(str) : str[i] \in 48..57
    /\ Len(str) > 1 => str[1] # 48

HexValue(c) == IF c \in 48..57 THEN c - 48 ELSE c - 87

IsHex4(str) ==
    /\ Len(str) = 4
    /\ \A i \in 1..4 : str[i] \in (48..57) \cup (97..102)

Hex4Value(str) ==
    ((HexValue(str[1]) * 16 + HexValue(str[2])) * 16 + HexValue(str[3])) * 16
    + HexValue(str[4])

\* host is the dotted decimal of the four address bytes of request r.
IsDottedDecimalOf(host, r) ==
    LET parts == Split(host, 46)
    IN  /\ Len(parts) = 4
        /\ \A i \in 1..4 : IsDecimal(parts[i]) /\ DecValue(parts[i]) = r[4 + i]

\* host is the eight colon-separated 4-hex-digit groups of the sixteen
\* address bytes of request r.
IsHexGroupsOf(host, r) ==
    LET parts == Split(host, 58)
    IN  /\ Len(parts) = 8
        /\ \A g \in 1..8 :
              /\ IsHex4(parts[g])
              /\ Hex4Value(parts[g]) = r[3 + 2 * g] * 256 + r[4 + 2 * g]

\* A whole CONNECT request of version 5 with an IPv4, domain or IPv6 address.
WellFormed(r) ==
    /\ Len(r) >= 5
    /\ r[1] = 5 /\ r[2] = 1
    /\ \/ r[4] = 1 /\ Len(r) = 10
       \/ r[4] = 3 /\ r[5] \in 1..255 /\ Len(r) = 5 + r[5] + 2
       \/ r[4] = 4 /\ Len(r) = 22

\* (host, port) is what request r says on the wire.
IsWireTarget(host, port, r) ==
    /\ r[4] = 1 => IsDottedDecimalOf(host, r)
    /\ r[4] = 3 => host = SubSeq(r, 6, 5 + r[5])
    /\ r[4] = 4 => IsHexGroupsOf(host, r)
    /\ port = r[Len(r) - 1] * 256 + r[Len(r)]

\* C12: every well-formed CONNECT request (IPv4, domain name of 1 to 255
\* bytes, IPv6) that the request read returned whole has brought the handler
\* to the upstream connect, with the host and port of the wire encoding.
C12_WellFormedReachesConnect ==
    (conn.read /\ WellFormed(conn.buf)) =>
        /\ conn.pc = "connect" \/ conn.connects = 1
        /\ IsWireTarget(conn.target_host, conn.target_port, conn.buf)

\* -------------------------------------------------------------------- C13
\* The greeting read returned n bytes and the request read has not.
GreetingRead ==
    /\ ~conn.read
    /\ conn.pc # "read_greeting"
    /\ ~(conn.cause = "io_error" /\ conn.written = << >> /\ conn.n = 0)

\* The four inputs the claim names: a greeting of fewer than 2 bytes, a
\* request of fewer than 10, a version byte other than 5, a CONNECT request
\* with a domain name and fewer than 5 + length byte + 2 bytes.
SilentCase ==
    \/ GreetingRead /\ conn.n < 2
    \/ /\ conn.read
       /\ \/ conn.n < 10
          \/ conn.buf[1] # 5
          \/ /\ conn.buf[2] = 1
             /\ conn.buf[4] = 3
             /\ conn.n < 5 + conn.buf[5] + 2

\* C13: in each of the four cases the connection has ended, nothing was
\* written after what precedes the failing read (nothing at all for the
\* greeting, the 2-byte method selection alone for the request), and no
\* upstream connect was issued; a version byte other than 5 does so whatever
\* the command byte is, so the version is checked before the command.
C13_SilentFailures ==
    SilentCase =>
        /\ conn.pc = "closed"
        /\ conn.connects = 0
        /\ conn.written = IF conn.read THEN <<MethodReply>> ELSE << >>

\* A request of 10 bytes or more with a version other than 5 and a command
\* other than CONNECT has ended the connection.
C13_Witness ==
    /\ conn.read
    /\ conn.n >= 10
    /\ conn.buf[1] # 5
    /\ conn.buf[2] # 1
    /\ conn.pc = "closed"

\* -------------------------------------------------------------------- C14
\* The reply code the claim fixes for the request read, or None where the
\* claim fixes none.
ClaimedCode ==
    IF ~conn.read \/ conn.n < 10 \/ conn.buf[1] # 5 THEN None
    ELSE IF conn.buf[2] # 1 THEN Some(7)
    ELSE IF conn.buf[4] \notin {1, 3, 4} THEN Some(8)
    ELSE IF conn.buf[4] = 4 /\ conn.n < 22 THEN Some(1)
    ELSE None

\* C14: a request with a command other than CONNECT (version 5, 10 bytes or
\* more), with an address type other than IPv4, domain or IPv6, or with an
\* IPv6 address in fewer than 22 bytes is answered with exactly one reply,
\* 05 <code> 00 01 00 00 00 00 00 00 with code 07, 08 or 01 in that order of
\* causes, and then closed; no upstream connect is issued.  The reply is the
\* only thing written after the method selection, and it is missing only if
\* writing it to the local socket failed.
C14_RejectionReplies ==
    ClaimedCode # None =>
        LET reply == <<5, Unwrap(ClaimedCode), 0, 1, 0, 0, 0, 0, 0, 0>>
        IN  /\ conn.connects = 0
            /\ \/ conn.pc = "write_reject" /\ conn.written = <<MethodReply>>
               \/ /\ conn.pc = "closed"
                  /\ conn.cause # "io_error"
                  /\ conn.written = <<MethodReply, reply>>
               \/ /\ conn.pc = "closed"
                  /\ conn.cause = "io_error"
                  /\ conn.written = <<MethodReply>>

\* An IPv6 CONNECT request of fewer than 22 bytes has been answered with code
\* 01 and closed.
C14_Witness ==
    /\ conn.read
    /\ conn.n \in 10..21
    /\ conn.buf[1] = 5 /\ conn.buf[2] = 1 /\ conn.buf[4] = 4
    /\ conn.pc = "closed"
    /\ conn.written = <<MethodReply, <<5, 1, 0, 1, 0, 0, 0, 0, 0, 0>>>>

\* -------------------------------------------------------------------- C15
\* One copy direction has completed and the handler is still in the relay.
HalfClosed == conn.pc = "relay" /\ conn.ready # {}

\* C15: once either copy direction has completed (end-of-stream or error),
\* the only step in which anything more is copied is the one that ends the
\* connection, and the connection does end: the handler never stays in the
\* relay with one direction finished.
C15_FirstCompletionEndsRelay ==
    /\ [][(HalfClosed /\ conn'.copied # conn.copied) => conn'.pc = "closed"]_vars
    /\ HalfClosed ~> (conn.pc = "closed")

\* The connection has ended after a relay in which one direction completed
\* and the other, which had copied data, never did.
C15_Witness ==
    /\ conn.pc = "closed"
    /\ conn.connected
    /\ \E d \in Directions :
          /\ conn.ready = {d}
          /\ \E e \in Directions \ {d} : conn.copied[e] > 0

\* -------------------------------------------------------------------- C16
\* The request read passed every check that precedes the connect.
Validated ==
    /\ conn.read
    /\ conn.n >= 10
    /\ conn.buf[1] = 5
    /\ conn.buf[2] = 1
    /\ conn.buf[4] \in {1, 3, 4}
    /\ conn.buf[4] = 3 => conn.n >= 5 + conn.buf[5] + 2
    /\ conn.buf[4] = 4 => conn.n >= 22

SuccessReply == <<5, 0, 0, 1, 0, 0, 0, 0, 0, 0>>
RefusedReply == <<5, 5, 0, 1, 0, 0, 0, 0, 0, 0>>

\* C16: within one connection the method selection 05 00 is the first thing
\* written, is written once, and is written before the request is read; the
\* connect is issued at most once and only for a validated request; the
\* success reply is written only after a connect that succeeded; a failed
\* connect leads to the reply with code 05 and to no relay; nothing is
\* copied before the success reply is written; and at most one 10-byte
\* reply is written.
C16_StepOrder ==
    /\ Len(conn.written) <= 2
    /\ conn.written # << >> => conn.written[1] = <<5, 0>>
    /\ Len(conn.written) = 2 => Len(conn.written[2]) = 10
    /\ conn.read => conn.written # << >>
    /\ conn.connects <= 1
    /\ conn.connects = 1 => Validated
    /\ conn.pc \in {"connect", "write_success", "relay"} => Validated
    /\ (Len(conn.written) = 2 /\ conn.written[2] = SuccessReply) =>
           conn.connected
    /\ (conn.connects = 1 /\ ~conn.connected) =>
           /\ conn.pc \in {"write_reject", "closed"}
           /\ conn.pc = "write_reject" => conn.written = <<<<5, 0>>>>
           /\ (conn.pc = "closed" /\ conn.cause # "io_error") =>
                  conn.written = <<<<5, 0>>, RefusedReply>>
           /\ conn.ready = {}
    /\ (conn.pc = "relay" \/ conn.ready # {}
        \/ \E d \in Directions : conn.copied[d] > 0) =>
           conn.written = <<<<5, 0>>, SuccessReply>>

\* A validated request whose connect failed: answered with code 05, closed,
\* nothing relayed.
C16_Witness ==
    /\ conn.connects = 1
    /\ ~conn.connected
    /\ conn.pc = "closed"
    /\ conn.written = <<<<5, 0>>, RefusedReply>>

\* -------------------------------------------------------------------- C17
\* Listener task i has left its accept loop through the Err arm.
LoopBroken(i) == tasks[i].st = "exited"

\* C17: once an accept has failed, the listener task accepts nothing more
\* (no accept is possible for it, it never runs again and gets no further
\* handler), and with no live listener nothing is accepted at all until a
\* startProxy spawns a new one; the failing accept leaves the handlers
\* spawned before it as they are; and a running listener can accept the next
\* connection however many of its handlers are still running (up to the
\* number of connections tried).
C17_AcceptErrorEndsLoop ==
    /\ [](\A i \in 1..Len(tasks) :
            /\ LoopBroken(i) => ~ENABLED AcceptOk(i)
            /\ (tasks[i].st = "running"
                /\ RunningHandlers(MaxTasks) < MaxHandlers) =>
                   ENABLED AcceptOk(i))
    /\ []((\A i \in 1..Len(tasks) : ~Live(i)) =>
            ~ENABLED (\E i \in 1..Len(tasks) : AcceptOk(i)))
    /\ [][\A i \in 1..Len(tasks) :
            /\ (~LoopBroken(i) /\ LoopBroken(i)') => handlers' = handlers
            /\ LoopBroken(i) =>
                  /\ LoopBroken(i)'
                  /\ Len(handlers'[i]) <= Len(handlers[i])]_vars

\* The accept loop of one listener has ended on an error while a handler it
\* spawned before is still running, and a listener started later is running
\* with a handler of its own.
C17_Witness ==
    \E i, j \in 1..Len(tasks) :
        /\ LoopBroken(i)
        /\ handlers[i] # << >>
        /\ j > i
        /\ tasks[j].st = "running"
        /\ handlers[j] # << >>

\* -------------------------------------------------------------------- C20
\* C20: every running handler connects through the client handle its
\* listener captured, which is the handle that was in ARTI_CLIENT when
\* startProxy spawned the listener and which the listener keeps for life; a
\* step that replaces the handle in ARTI_CLIENT (a second successful
\* initialize) changes no listener task, no handler and not the listener
\* slot.
C20_HandlersUseCapturedClient ==
    /\ [](\A i \in 1..Len(tasks) : \A k \in 1..Len(handlers[i]) :
            handlers[i][k] = tasks[i].client)
    /\ [][/\ Len(tasks') > Len(tasks) =>
                tasks'[Len(tasks')].client = Unwrap(ARTI_CLIENT)
          /\ \A i \in 1..Len(tasks) : tasks'[i].client = tasks[i].client
          /\ ARTI_CLIENT' # ARTI_CLIENT =>
                UNCHANGED <<tasks, handlers, SOCKS_TASK>>]_vars

\* A second initialize has replaced the handle while the listener in the
\* slot is running: the listener and its running handler hold the old one.
C20_Witness ==
    \E i \in 1..Len(tasks) :
        /\ SOCKS_TASK = Some(i)
        /\ tasks[i].st = "running"
        /\ ARTI_CLIENT # Some(tasks[i].client)
        /\ handlers[i] # << >>
        /\ ReturnedFrom(1, "initialize")

\* -------------------------------------------------------------------- C18
\* C18: under every interleaving of lifecycle calls, a filled listener slot
\* implies a client handle, a client handle implies the engine, and neither
\* the handle nor the engine is ever unset again; so no startProxy finds the
\* engine missing or returns -2, and a startProxy that returns -1 found the
\* slot empty when it took from it: it cancelled no listener.
C18_SlotImpliesClientImpliesEngine ==
    /\ [](/\ SOCKS_TASK # None => ARTI_CLIENT # None
          /\ ARTI_CLIENT # None => TOKIO_RUNTIME # None
          /\ \A t \in Threads :
                /\ frame[t].op = "startProxy" =>
                      frame[t].ret # Some(START_ERR_RUNTIME)
                /\ pc[t] = "sp_rt" => TOKIO_RUNTIME # None
                /\ (frame[t].op = "startProxy"
                    /\ frame[t].ret = Some(START_ERR_CLIENT)) =>
                      frame[t].taken = None)
    /\ [][/\ ARTI_CLIENT # None => ARTI_CLIENT' # None
          /\ TOKIO_RUNTIME # None => TOKIO_RUNTIME' = TOKIO_RUNTIME]_vars

\* An initialize has failed with -3 while the handle of an earlier one is
\* there, and a startProxy of another thread, which took a listener out of
\* the slot, is at its engine check.
C18_Witness ==
    \E t, u \in Threads :
        /\ ReturnedFrom(t, "initialize")
        /\ frame[t].ret = Some(INIT_ERR_ARTI)
        /\ pc[u] = "sp_rt"
        /\ frame[u].taken # None
        /\ ARTI_CLIENT # None

\* -------------------------------------------------------------------- C19
\* The mutexes thread t holds.
HeldBy(t) == {l \in Mutexes : held[l] = Some(t)}

\* The mutex thread t acquires in its next instruction, if any.
Wanted(t) ==
    IF at[t].op # "idle" /\ Instr(t).k \in {"lock", "test", "store"}
    THEN Instr(t).l
    ELSE "none"

\* The acquisition order: the engine, then the listener slot or the client
\* handle, then the VM reference, then the log callback.
Rank(l) ==
    CASE l = "TOKIO_RUNTIME" -> 1
      [] l \in {"SOCKS_TASK", "ARTI_CLIENT"} -> 2
      [] l = "JAVA_VM" -> 3
      [] l = "LOG_CALLBACK" -> 4

\* Thread t can take its next step, or the thread it waits for (the holder of
\* the mutex t wants, or the thread inside INIT_ONCE) can, and so on along
\* at most d waits.
RECURSIVE CanRun(_, _)
CanRun(t, d) ==
    \/ ENABLED LockStep(t)
    \/ /\ d > 0
       /\ \E u \in LockThreads \ {t} :
             /\ \/ Wanted(t) # "none" /\ held[Wanted(t)] = Some(u)
                \/ Instr(t).k = "once_enter" /\ once.by = Some(u)
             /\ CanRun(u, d - 1)

\* C19: whatever the interleaving of initialize, startProxy, stop,
\* getVersion, setLogCallback and the log lines of background tasks, a
\* thread only ever acquires a mutex that comes later in the order than
\* every mutex it holds, at most one thread holds a mutex, a call returns
\* holding none, and no call in progress is stuck: it can step, or the chain
\* of threads it waits for ends in one that can.
C19_LockOrderNoDeadlock ==
    \A t \in LockThreads :
        /\ Wanted(t) # "none" =>
              \A l \in HeldBy(t) : Rank(l) < Rank(Wanted(t))
        /\ (at[t].op # "idle" /\ Instr(t).k = "ret") => HeldBy(t) = {}
        /\ at[t].op = "idle" => HeldBy(t) = {}
        /\ at[t].op # "idle" => CanRun(t, Cardinality(Mutexes))

\* One thread holds the engine and the VM reference (a log line inside
\* initialize or startProxy) while another, holding the listener slot, is
\* blocked on the VM reference for a log line of its own.
C19_Witness ==
    \E t, u \in LockThreads :
        /\ t # u
        /\ {"TOKIO_RUNTIME", "JAVA_VM"} \subseteq HeldBy(t)
        /\ "SOCKS_TASK" \in HeldBy(u)
        /\ Wanted(u) = "JAVA_VM"
        /\ ~ENABLED LockStep(u)

====
